---- MODULE Spec2Model ----
(***************************************************************************)
(* The request-randomness task of hardhat-vrf-contracts                    *)
(* (scripts/request-randomness.ts): subscription discovery, consumer       *)
(* registration, funding, request submission and the fulfillment wait.     *)
(***************************************************************************)
EXTENDS Integers, Sequences, FiniteSets, TLC

\* ------------------------------------------------------------------ bounds
\* Subscription ids 1..MaxId can exist on the coordinator, plus FarId (an id
\* inside the 21..30 window) and HashId (a hash-like id beyond every probe
\* window and beyond the hex-extraction sanity limit).
MaxId == 2
FarId == 25
HashId == 2000000
\* A 32-byte word that is no small id: an owner address or a topic hash.
BigWord == 3000000
\* Request identifiers the coordinator may assign.
MaxReq == 2
\* Answers of getSubscription scripted for one binary search; a search that
\* asks more often starts over at the first.
MaxAnswers == 11

\* ------------------------------------------------------- program constants
waitInterval == 5000
timeout == 300000

Ids == (1..MaxId) \cup {FarId}
AllIds == Ids \cup {HashId}

VARIABLES
  \* the coordinator (environment)
  subs,            \* id -> [owner, reqCount]; owner "none" = no such subscription
  newSubId,        \* the id createSubscription will assign
  createLogs,      \* the logs its receipt will carry
  \* the task's locals
  pc,
  existing,        \* existingSubscriptionIds, elements tagged with their JS type
  logs,            \* receipt.logs
  newIds,          \* the event-diff candidates
  subId,           \* 0 stands for undefined and for 0n: the code only tests !subId
  li,              \* index of the log the known-topic loop is at
  maxExistingId,
  firstSubExists,
  \* observation of the run
  enumOk,          \* which getActiveSubscriptionIds calls answered: "pre", "post"
  okNew,           \* event-diff candidates whose call answered with owner = signer
  verified,        \* ids for which a getSubscription call returned owner = signer
  ran,             \* discovery strategies executed
  via,             \* the strategy that assigned subId
  sent,            \* transactions sent, in order
  mined,           \* transactions whose receipt was awaited successfully
  failedAt,        \* the step whose exception ended the task ("" = none)
  thrown,          \* the error the task rejects with
  config,          \* deploy-vrf-system: the configuration read from the environment
  dpc,             \* deploy-vrf-system: position in main()
  deployed,        \* deploy-vrf-system: contracts deployed, in order
  called,          \* deploy-vrf-system: transactions sent to deployed contracts
  \* test-randomness-request.ts, second task definition
  ppc,             \* position in the task action
  assignedId,      \* the id the coordinator assigned to the request of this run
  storedId,        \* the consumer's s_requestId
  wordsStored,     \* the consumer's s_randomWords has an element 0
  pollRequestId,   \* the task's const requestId
  pollElapsed,     \* the task's elapsed
  fulfilledReports, \* times "Request fulfilled!" was printed
  timeoutReports,  \* times "Timeout waiting for fulfillment" was printed
  \* helper functions and one-shot scripts, applied to an input
  arg,             \* the input: [fn, v]
  res,             \* the result ("" until the function was applied)
  \* steps 3-7
  addError,        \* error.data of the addConsumer failure
  identified,      \* what the catch block of addConsumer printed about it
  funding,         \* the task that runs and the amounts it passed in step 5
  encodedSubId,    \* the auxiliary data of transferAndCall
  requestId,       \* consumer.s_requestId() after the request was mined
  eventRequestId,  \* topics[1] of the RandomWordsRequested log (0 = none seen)
  elapsed,
  \* the chain after the request (environment)
  reqOnChain,      \* the id the coordinator gave the request
  eventTopic,      \* topics[1] of its RandomWordsRequested log (0 = no such log)
  cancelRequested, \* the caller has asked for the watch to stop
  storage,         \* consumer slots: [len, word, gas] of s_randomWords / s_gasAvailable
  \* observation of the watch
  ticks,           \* poll ticks performed
  pendingReports,  \* "Still waiting..." lines printed
  lastFailed,      \* the read that threw in the last tick ("" = none)
  eventProbe,      \* what the event probe of the last tick found ("" = not run)
  evidenceAtStart, \* the consumer held fulfillment evidence when the loop started
  watch            \* PENDING, FULFILLED or TIMED_OUT

coordVars == <<subs, newSubId, createLogs>>
localVars == <<existing, logs, newIds, subId, li, maxExistingId, firstSubExists>>
obsVars == <<enumOk, okNew, verified, ran, via>>
txVars == <<sent, mined, failedAt, thrown>>
flowVars == <<addError, identified, funding, encodedSubId, requestId, eventRequestId, elapsed>>
chainVars == <<reqOnChain, eventTopic, storage, cancelRequested>>
watchVars == <<ticks, pendingReports, lastFailed, eventProbe, evidenceAtStart, watch>>
laterVars == <<flowVars, chainVars, watchVars>>
resolveVars == <<coordVars, localVars, obsVars>>
taskVars == <<coordVars, pc, localVars, obsVars, txVars, laterVars>>
deployVars == <<config, dpc, deployed, called>>
pollVars == <<ppc, assignedId, storedId, wordsStored, pollRequestId, pollElapsed,
              fulfilledReports, timeoutReports>>
utilVars == <<arg, res>>
scriptVars == <<deployVars, pollVars, utilVars>>
vars == <<taskVars, scriptVars>>

\* ------------------------------------------------------------ coordinator
NoSub == [owner |-> "none", reqCount |-> 0]
FreshSub == [owner |-> "signer", reqCount |-> 0]
SubStates == {NoSub, FreshSub,
              [owner |-> "signer", reqCount |-> 1],
              [owner |-> "other", reqCount |-> 0]}

Owner(i) == IF i \in AllIds THEN subs[i].owner ELSE "none"
ActiveIds == {i \in AllIds : subs[i].owner # "none"}
InRange(lo, hi) == {i \in AllIds : lo <= i /\ i <= hi}
\* The getSubscription calls of one pass over lo..hi that can answer at all.
Existing(lo, hi) == {i \in InRange(lo, hi) : Owner(i) # "none"}

\* coordinator.getSubscription(i) answers (ok = the calls the transport lets through)
GetOk(i, ok) == i \in ok /\ Owner(i) # "none"
\* sub.subOwner.toLowerCase() === signerAddress.toLowerCase()
OwnedBySigner(i, ok) == GetOk(i, ok) /\ subs[i].owner = "signer"

Min(S) == CHOOSE x \in S : \A y \in S : x <= y
Max(S) == CHOOSE x \in S : \A y \in S : x >= y
FirstOf(S) == IF S = {} THEN 0 ELSE Min(S)

\* ------------------------------------------------------------ receipt logs
OwnerData == [len |-> 66, word |-> BigWord]
ShortData == [len |-> 2, word |-> 0]
IdData(v) == [len |-> 66, word |-> v]

LogShapes ==
  {[address |-> "coordinator", topics |-> <<"v2", 1>>, data |-> OwnerData],
   [address |-> "coordinator", topics |-> <<"v25", BigWord>>, data |-> OwnerData],
   [address |-> "coordinator", topics |-> <<"v25", BigWord>>, data |-> ShortData],
   [address |-> "coordinator", topics |-> <<"x">>, data |-> IdData(2)],
   [address |-> "other", topics |-> <<>>, data |-> ShortData]}

Receipts == {<<>>} \cup {<<a>> : a \in LogShapes}
            \cup {<<a, b>> : a \in LogShapes, b \in LogShapes}

\* ------------------------------------------------------ reverts, storage
\* error.data: a 4-byte selector and the bytes after it ("" = no data at all)
NoRevert == [selector |-> "", tail |-> 0]
Reverts == {[selector |-> "0x1f6a65b6", tail |-> 0],
            [selector |-> "0x1f6a65b6", tail |-> 32],
            [selector |-> "0x7aa5175d", tail |-> 0],
            [selector |-> "0x756688fe", tail |-> 32],
            [selector |-> "0x756e89cb", tail |-> 0],
            [selector |-> "0x08c379a0", tail |-> 32],
            NoRevert}

NoPayload == [type |-> "", word |-> 0]

EmptyStorage == [len |-> 0, word |-> 0, gas |-> 0]
Storages == [len : 0..1, word : 0..1, gas : 0..1]

\* Array.prototype.includes compares with SameValueZero: 1 and 1n differ.
Includes(arr, v) == v \in arr

\* ------------------------------------------------- discovery: control flow
\* receipt.logs.length === 1 && receipt.logs[0].topics.length === 2
DirectCond == Len(logs) = 1 /\ Len(logs[1].topics) = 2

\* The fallback methods entered whatever the event diff found.
AfterDiffAlways(s) == IF DirectCond THEN "activeScan" ELSE "hex"

\* Line 108: where the task goes once the event-diff block has run.
AfterDiff(s) == IF s # 0 THEN "deploy"
                ELSE IF DirectCond THEN "activeScan" ELSE "hex"

\* End of the known-topic loop: the fallback runs only if (!subId).
AfterTopics(s) == IF s # 0 THEN "deploy" ELSE "fallback"

\* The error a rejected task carries: its message where the script writes one
\* ("" for a message of the provider), its .data, and how many times the call
\* that threw it had been made.
NoError == [message |-> "", data |-> NoRevert, attempts |-> 0]

\* Lines 995-1009: both catch blocks rethrow the error they caught; every
\* remote call stands in the code once, outside any retry loop.
ThrowError(step, message, d) ==
  /\ pc' = "failed"
  /\ failedAt' = step
  /\ thrown' = [message |-> message, data |-> d, attempts |-> 1]

\* Line 604: throw error, the provider's error with its revert data
ThrowWith(step, d) == ThrowError(step, "", d)

\* The catch blocks swallow the error and the task resolves.
ThrowSwallowed(step) ==
  /\ pc' = "done"
  /\ failedAt' = step
  /\ thrown' = [message |-> "", data |-> NoRevert, attempts |-> 1]

\* An error of the provider without revert data.
Throw(step) == ThrowWith(step, NoRevert)

\* --------------------------------------------- STEP 2: snapshot and create
\* Lines 44-62: getActiveSubscriptionIds(0, 100), else getSubscription(1..20).
SnapshotExisting ==
  /\ pc = "snapshot"
  /\ UNCHANGED <<laterVars, scriptVars>>
  /\ \/ /\ existing' = {<<"bigint", i>> : i \in ActiveIds}
        /\ enumOk' = enumOk \cup {"pre"}
        /\ UNCHANGED verified
     \/ \E ok \in SUBSET Existing(1, 20) :
          /\ existing' = {<<"number", i>> : i \in {j \in InRange(1, 20) : GetOk(j, ok)}}
          /\ verified' = verified \cup {j \in InRange(1, 20) : OwnedBySigner(j, ok)}
          /\ UNCHANGED enumOk
  /\ pc' = "create"
  /\ UNCHANGED <<coordVars, logs, newIds, subId, li, maxExistingId, firstSubExists,
                 okNew, ran, via, txVars>>

\* The creation is submitted twice.
CreateSubscriptionTwice ==
  /\ pc = "create"
  /\ UNCHANGED <<laterVars, scriptVars>>
  /\ \/ /\ sent' = sent \o <<"createSubscription", "createSubscription">>
        /\ pc' = "createWait"
        /\ UNCHANGED <<mined, failedAt, thrown>>
     \/ /\ Throw("createSubscription")
        /\ UNCHANGED <<sent, mined>>
  /\ UNCHANGED <<coordVars, localVars, obsVars>>

\* Line 65: await coordinator.createSubscription()
CreateSubscription ==
  /\ pc = "create"
  /\ UNCHANGED <<laterVars, scriptVars>>
  /\ \/ /\ sent' = Append(sent, "createSubscription")
        /\ pc' = "createWait"
        /\ UNCHANGED <<mined, failedAt, thrown>>
     \/ /\ Throw("createSubscription")
        /\ UNCHANGED <<sent, mined>>
  /\ UNCHANGED <<coordVars, localVars, obsVars>>

\* Lines 67-72: await createSubTx.wait(); a null receipt throws.
CreateSubscriptionWait ==
  /\ pc = "createWait"
  /\ UNCHANGED <<laterVars, scriptVars>>
  /\ \/ /\ subs' = [subs EXCEPT ![newSubId] = FreshSub]
        /\ logs' = createLogs
        /\ mined' = mined \cup {"createSubscription"}
        /\ pc' = "diff"
        /\ UNCHANGED <<failedAt, thrown>>
     \/ /\ Throw("createSubscription")
        /\ UNCHANGED <<subs, logs, mined>>
  /\ UNCHANGED <<newSubId, createLogs, existing, newIds, subId, li, maxExistingId,
                 firstSubExists, obsVars, sent>>

\* ------------------------------------------------ strategy 1: event diff
\* Line 85: newSubscriptionIds.filter(id => !existingSubscriptionIds.includes(id))
NewIds == {i \in ActiveIds : ~Includes(existing, <<"bigint", i>>)}

\* Lines 77-105. The order of the returned array is the coordinator's: any
\* candidate that answers with owner = signer can be the first one met.
EventDiff ==
  /\ pc = "diff"
  /\ UNCHANGED <<laterVars, scriptVars>>
  /\ ran' = ran \cup {"eventDiff"}
  /\ \/ /\ pc' = AfterDiff(0)
        /\ UNCHANGED <<newIds, subId, enumOk, okNew, verified, via>>
     \/ \E ok \in SUBSET ActiveIds :
          LET cands == {i \in NewIds : OwnedBySigner(i, ok)} IN
          /\ newIds' = NewIds
          /\ okNew' = cands
          /\ enumOk' = enumOk \cup {"post"}
          /\ IF cands = {}
             THEN /\ pc' = AfterDiff(0)
                  /\ UNCHANGED <<subId, verified, via>>
             ELSE \E c \in cands :
                    /\ subId' = c
                    /\ verified' = verified \cup {c}
                    /\ via' = "eventDiff"
                    /\ pc' = AfterDiff(c)
  /\ UNCHANGED <<coordVars, existing, logs, li, maxExistingId, firstSubExists, txVars>>

\* ------------------------------- strategy 2: direct check (lines 114-198)
\* Lines 119-153: scan of getActiveSubscriptionIds(0, 100) for an owned id.
ActiveScan ==
  /\ pc = "activeScan"
  /\ UNCHANGED <<laterVars, scriptVars>>
  /\ ran' = ran \cup {"activeScan"}
  /\ \/ /\ pc' = "probe100"
        /\ UNCHANGED <<subId, verified, via>>
     \/ \E ok \in SUBSET ActiveIds :
          LET cands == {i \in ActiveIds : OwnedBySigner(i, ok)} IN
          IF cands = {}
          THEN /\ pc' = "probe100"
               /\ UNCHANGED <<subId, verified, via>>
          ELSE \E c \in cands :
                 /\ subId' = c
                 /\ verified' = verified \cup {c}
                 /\ via' = "activeScan"
                 /\ pc' = "deploy"
  /\ UNCHANGED <<coordVars, existing, logs, newIds, li, maxExistingId, firstSubExists,
                 enumOk, okNew, txVars>>

\* Lines 163-166: owner is the signer and sub.reqCount === 0n
AcceptFresh(i, ok) == OwnedBySigner(i, ok) /\ subs[i].reqCount = 0
\* Lines 300, 357, 378, 422: owner is the signer
AcceptOwned(i, ok) == OwnedBySigner(i, ok)

\* The calls a pass over lo..hi makes before it breaks at `found`.
Called(lo, hi, found) ==
  IF found = 0 THEN InRange(lo, hi) ELSE {i \in InRange(lo, hi) : i <= found}

\* Lines 156-191: probe of ids 1..100.
Probe100 ==
  /\ pc = "probe100"
  /\ UNCHANGED <<laterVars, scriptVars>>
  /\ ran' = ran \cup {"probe100"}
  /\ \E ok \in SUBSET Existing(1, 100) :
       LET found == FirstOf({i \in InRange(1, 100) : AcceptFresh(i, ok)}) IN
       /\ verified' = verified \cup
                        {i \in Called(1, 100, found) : OwnedBySigner(i, ok)}
       /\ subId' = found
       /\ via' = IF found # 0 THEN "probe100" ELSE via
       /\ pc' = IF found # 0 THEN "deploy" ELSE "hex"
  /\ UNCHANGED <<coordVars, existing, logs, newIds, li, maxExistingId, firstSubExists,
                 enumOk, okNew, txVars>>

\* ---------------------------------- direct hex extraction (lines 204-256)
\* Line 216, 223, 233: a coordinator log whose first data word is a small id.
HexCandidate(l) ==
  /\ l.address = "coordinator"
  /\ l.data.len >= 66
  /\ l.data.word > 0 /\ l.data.word < 1000000

\* Every log is visited (the loop has no break): the last log whose id answers
\* with owner = signer decides. okLog[k]: the verification call of log k answers.
HexExtraction ==
  /\ pc = "hex"
  /\ UNCHANGED <<laterVars, scriptVars>>
  /\ ran' = ran \cup {"hex"}
  /\ \E okLog \in [1..Len(logs) -> BOOLEAN] :
       LET hits == {k \in 1..Len(logs) :
                      /\ HexCandidate(logs[k])
                      /\ okLog[k]
                      /\ Owner(logs[k].data.word) = "signer"} IN
       /\ subId' = IF hits = {} THEN subId ELSE logs[Max(hits)].data.word
       /\ via' = IF hits = {} THEN via ELSE "hex"
       /\ verified' = verified \cup {logs[k].data.word : k \in hits}
  /\ li' = 1
  /\ pc' = "topics"
  /\ UNCHANGED <<coordVars, existing, logs, newIds, maxExistingId, firstSubExists,
                 enumOk, okNew, txVars>>

\* ------------------------------- Method 1: known topics (lines 258-447)
\* Lines 263-266, 272
KnownTopic(t) == t \in {"v2", "v25"}

\* Lines 268-283: one log of the loop, up to the v2 / v2.5 branch.
\* log.topics[0].toLowerCase() and BigInt(log.topics[1]) throw a TypeError on
\* a missing topic; the outer catch rethrows it.
TopicsLog ==
  /\ pc = "topics" /\ li <= Len(logs)
  /\ UNCHANGED <<laterVars, scriptVars>>
  /\ ran' = ran \cup {"knownTopics"}
  /\ LET log == logs[li] IN
     IF Len(log.topics) = 0
     THEN /\ Throw("discovery")
          /\ UNCHANGED <<subId, via, li>>
     ELSE IF ~KnownTopic(log.topics[1])
     THEN /\ li' = li + 1
          /\ UNCHANGED <<pc, subId, via, failedAt, thrown>>
     ELSE IF log.topics[1] = "v2"
     THEN IF Len(log.topics) < 2
          THEN /\ Throw("discovery")
               /\ UNCHANGED <<subId, via, li>>
          ELSE /\ subId' = log.topics[2]
               /\ via' = "v2topic"
               /\ IF log.topics[2] # 0
                  THEN pc' = "deploy" /\ li' = li
                  ELSE pc' = "topics" /\ li' = li + 1
               /\ UNCHANGED <<failedAt, thrown>>
     ELSE /\ pc' = "probe20"
          /\ UNCHANGED <<subId, via, li, failedAt, thrown>>
  /\ UNCHANGED <<coordVars, existing, logs, newIds, maxExistingId, firstSubExists,
                 enumOk, okNew, verified, sent, mined>>

\* The loop is over: line 452.
TopicsDone ==
  /\ pc = "topics" /\ li > Len(logs)
  /\ UNCHANGED <<laterVars, scriptVars>>
  /\ pc' = AfterTopics(subId)
  /\ UNCHANGED <<coordVars, localVars, obsVars, txVars>>

\* Line 336: abiCoder.decode(['address'], log.data) throws on a short payload.
DecodeAddressOk(l) == l.data.len >= 66

\* Lines 291-336: probe of ids 1..20; `if (subId) break` at line 327 also sees a
\* subId the hex extraction left; else the data decode decides what follows.
Probe20 ==
  /\ pc = "probe20"
  /\ UNCHANGED <<laterVars, scriptVars>>
  /\ ran' = ran \cup {"probe20"}
  /\ \E ok \in SUBSET Existing(1, 20) :
       LET found == FirstOf({i \in InRange(1, 20) : AcceptOwned(i, ok)})
           s == IF found # 0 THEN found ELSE subId IN
       /\ subId' = s
       /\ via' = IF found # 0 THEN "probe20" ELSE via
       /\ verified' = verified \cup {i \in Called(1, 20, found) : OwnedBySigner(i, ok)}
       /\ IF s # 0 THEN pc' = "deploy" /\ li' = li
          ELSE IF DecodeAddressOk(logs[li]) THEN pc' = "probe10" /\ li' = li
          ELSE pc' = "topics" /\ li' = li + 1
  /\ UNCHANGED <<coordVars, existing, logs, newIds, maxExistingId, firstSubExists,
                 enumOk, okNew, txVars>>

\* Lines 350-366 (1..10) and 372-387 (11..30): a pass that accepts on ownership.
OwnerPass(at, lo, hi, name, miss) ==
  /\ pc = at
  /\ UNCHANGED <<laterVars, scriptVars>>
  /\ ran' = ran \cup {name}
  /\ \E ok \in SUBSET Existing(lo, hi) :
       LET found == FirstOf({i \in InRange(lo, hi) : AcceptOwned(i, ok)}) IN
       /\ subId' = found
       /\ via' = IF found # 0 THEN name ELSE via
       /\ verified' = verified \cup {i \in Called(lo, hi, found) : OwnedBySigner(i, ok)}
       /\ pc' = IF found # 0 THEN "deploy" ELSE miss
  /\ UNCHANGED <<coordVars, existing, logs, newIds, li, maxExistingId, firstSubExists,
                 enumOk, okNew, txVars>>

Probe10 == OwnerPass("probe10", 1, 10, "probe10", "probe30")
Probe30 == OwnerPass("probe30", 11, 30, "probe30", "binsearch")

\* Lines 396-411: the binary search over 1..1000 for the highest existing id.
RECURSIVE BinarySearch(_, _, _, _)
BinarySearch(left, right, maxE, ok) ==
  IF left > right THEN maxE
  ELSE LET mid == (left + right) \div 2 IN
       IF GetOk(mid, ok)
       THEN BinarySearch(mid + 1, right, IF mid > maxE THEN mid ELSE maxE, ok)
       ELSE BinarySearch(left, mid - 1, maxE, ok)

\* The ids the search asked for (its mids).
RECURSIVE BinaryMids(_, _, _)
BinaryMids(left, right, ok) ==
  IF left > right THEN {}
  ELSE LET mid == (left + right) \div 2 IN
       {mid} \cup (IF GetOk(mid, ok) THEN BinaryMids(mid + 1, right, ok)
                   ELSE BinaryMids(left, mid - 1, ok))

FindLatest ==
  /\ pc = "binsearch"
  /\ UNCHANGED <<laterVars, scriptVars>>
  /\ ran' = ran \cup {"binsearch"}
  /\ \E ok \in SUBSET Existing(1, 1000) :
       LET m == BinarySearch(1, 1000, 0, ok) IN
       /\ maxExistingId' = m
       /\ verified' = verified \cup {i \in BinaryMids(1, 1000, ok) : OwnedBySigner(i, ok)}
       /\ IF m > 0 THEN pc' = "recheck" /\ li' = li
          ELSE pc' = "topics" /\ li' = li + 1
  /\ UNCHANGED <<coordVars, existing, logs, newIds, subId, firstSubExists,
                 enumOk, okNew, via, txVars>>

\* Lines 413-432: maxExistingId down to max(1, maxExistingId - 5).
RecheckLow == IF maxExistingId - 5 > 1 THEN maxExistingId - 5 ELSE 1

Recheck ==
  /\ pc = "recheck"
  /\ UNCHANGED <<laterVars, scriptVars>>
  /\ ran' = ran \cup {"recheck"}
  /\ \E ok \in SUBSET Existing(RecheckLow, maxExistingId) :
       LET hits == {i \in InRange(RecheckLow, maxExistingId) : AcceptOwned(i, ok)}
           found == IF hits = {} THEN 0 ELSE Max(hits) IN
       /\ subId' = found
       /\ via' = IF found # 0 THEN "recheck" ELSE via
       /\ verified' = verified \cup (IF found # 0 THEN {found} ELSE {})
       /\ IF found # 0 THEN pc' = "deploy" /\ li' = li
          ELSE pc' = "topics" /\ li' = li + 1
  /\ UNCHANGED <<coordVars, existing, logs, newIds, maxExistingId, firstSubExists,
                 enumOk, okNew, txVars>>

\* ------------------------------------ last resort (lines 451-529)
\* typeAndVersion (lines 456-479) only sets isV2_5, which nothing reads.
\* Placeholder id 1 whatever getSubscription(1) said.
UseIdOneAlways(first) == TRUE

\* Line 522: if (!firstSubExists)
UseIdOne(first) == ~first

Fallback ==
  /\ pc = "fallback"
  /\ UNCHANGED <<laterVars, scriptVars>>
  /\ ran' = ran \cup {"fallback"}
  /\ \E ok \in SUBSET Existing(1, 5) :
       LET own1 == OwnedBySigner(1, ok)
           found == FirstOf({i \in InRange(2, 5) : AcceptOwned(i, ok)}) IN
       /\ firstSubExists' = GetOk(1, ok)
       /\ verified' = verified \cup
            (IF own1 THEN {1}
             ELSE {i \in Called(2, 5, found) : OwnedBySigner(i, ok)})
       /\ IF own1
          THEN subId' = 1 /\ via' = "sub1" /\ pc' = "deploy" /\ UNCHANGED <<failedAt, thrown>>
          ELSE IF found # 0
          THEN subId' = found /\ via' = "sub2to5" /\ pc' = "deploy" /\ UNCHANGED <<failedAt, thrown>>
          ELSE IF UseIdOne(GetOk(1, ok))
          THEN subId' = 1 /\ via' = "lastResort" /\ pc' = "deploy" /\ UNCHANGED <<failedAt, thrown>>
          ELSE Throw("discovery") /\ UNCHANGED <<subId, via>>
  /\ UNCHANGED <<coordVars, existing, logs, newIds, li, maxExistingId, enumOk, okNew,
                 sent, mined>>

\* ------------------------------------------- STEP 3: deploy the consumer
\* Lines 533-535: deploy, waitForDeployment, getAddress.
DeployConsumer ==
  /\ pc = "deploy"
  /\ \/ /\ sent' = Append(sent, "deployConsumer")
        /\ mined' = mined \cup {"deployConsumer"}
        /\ pc' = "addConsumer"
        /\ UNCHANGED <<failedAt, thrown>>
     \/ /\ Throw("deployConsumer")
        /\ UNCHANGED <<sent, mined>>
  /\ UNCHANGED <<scriptVars, resolveVars, laterVars>>

\* ---------------------------------------------- STEP 4: add the consumer
SentCount(name) == Cardinality({k \in 1..Len(sent) : sent[k] = name})

\* Lines 564-577: knownErrors[error.data.slice(0, 10)]
ErrorKind(selector) ==
  CASE selector = "0x1f6a65b6" -> "NonExistentSubscription"
    [] selector = "0x7aa5175d" -> "InsufficientBalance"
    [] selector = "0x756688fe" -> "InvalidConsumer"
    [] selector = "0x756e89cb" -> "InvalidSubscription"
    [] OTHER -> ""

\* What the catch block prints about error.data: the kind it identified and
\* the selector of line 565 ("" = not printed).
NoReport == [kind |-> "", selector |-> ""]

\* The classifier names a kind only for data that is the bare selector.
ClassifyExact(d) ==
  IF d.selector = "" THEN NoReport
  ELSE IF d.selector = "0x1f6a65b6" /\ d.tail = 0
  THEN [kind |-> "NonExistentSubscription", selector |-> ""]
  ELSE [kind |-> IF d.tail = 0 THEN ErrorKind(d.selector) ELSE "",
        selector |-> d.selector]

\* Lines 552-581: nothing without error.data; "Non-existent subscription"
\* for the exact selector (lines 556-557, which throw before line 565);
\* otherwise the selector error.data.slice(0, 10) (line 565) and, if the
\* table knows it, "Identified error: <kind>" (lines 575-577).
Classify(d) ==
  IF d.selector = "" THEN NoReport
  ELSE IF d.selector = "0x1f6a65b6" /\ d.tail = 0
  THEN [kind |-> "NonExistentSubscription", selector |-> ""]
  ELSE [kind |-> ErrorKind(d.selector), selector |-> d.selector]

\* An Error without any text of the script.
GenericMessage == ""

\* Line 559: new Error(`Subscription ${subId} does not exist`)
DoesNotExistMessage == "Subscription does not exist"

\* Lines 556 and 584: error.data === '0x1f6a65b6'
IsNonExistentSubscription(d) == d.selector = "0x1f6a65b6" /\ d.tail = 0

\* Lines 548-606, the catch block of addConsumer for an error carrying data d.
\* Line 552 tests error.data, line 556 throws a new Error on the exact
\* selector, so that the test of line 584 only sees other data.
\* r: how far the recovery of lines 586-597 gets before something rejects and
\* line 600 rethrows.
AddConsumerCatch(d) ==
  /\ addError' = d
  /\ identified' = Classify(d)
  /\ UNCHANGED funding
  /\ IF d.selector # "" /\ IsNonExistentSubscription(d)
     THEN ThrowError("addConsumer", DoesNotExistMessage, NoRevert)
          /\ UNCHANGED <<sent, mined>>
     ELSE IF IsNonExistentSubscription(d)
     THEN \E r \in 0..4 :
            /\ sent' = sent \o (IF r = 0 THEN <<>>
                                ELSE IF r <= 2 THEN <<"createSubscription">>
                                ELSE <<"createSubscription", "addConsumer">>)
            /\ mined' = mined \cup (IF r = 4 THEN {"addConsumer"} ELSE {})
            /\ IF r = 4 THEN pc' = "approve" /\ UNCHANGED <<failedAt, thrown>>
               ELSE Throw("recovery")
     ELSE ThrowWith("addConsumer", d) /\ UNCHANGED <<sent, mined>>

\* Line 544: await coordinator.addConsumer(subId, consumerAddress)
AddConsumer ==
  /\ pc = "addConsumer"
  /\ \/ /\ sent' = Append(sent, "addConsumer")
        /\ pc' = "addConsumerWait"
        /\ UNCHANGED <<mined, failedAt, thrown, addError, identified, funding>>
     \/ \E d \in Reverts : AddConsumerCatch(d)
  /\ UNCHANGED <<scriptVars, resolveVars, encodedSubId, requestId, eventRequestId, elapsed,
                 chainVars, watchVars>>

\* The receipt of addConsumer is not awaited.
AddConsumerWaitUnawaited ==
  /\ pc = "addConsumerWait"
  /\ pc' = "approve"
  /\ UNCHANGED <<scriptVars, resolveVars, txVars, laterVars>>

\* Line 546: await addTx.wait()
AddConsumerWait ==
  /\ pc = "addConsumerWait"
  /\ \/ /\ mined' = mined \cup {"addConsumer"}
        /\ pc' = "approve"
        /\ UNCHANGED <<sent, failedAt, thrown, addError, identified, funding>>
     \/ \E d \in Reverts : AddConsumerCatch(d)
  /\ UNCHANGED <<scriptVars, resolveVars, encodedSubId, requestId, eventRequestId, elapsed,
                 chainVars, watchVars>>

\* ------------------------------------------- STEP 5: fund the subscription
\* The two tasks with this step: request-randomness (part_004) and
\* request-randomness-2 (part_002).
Part004 == "request-randomness"
Part002 == "request-randomness-2"
Tasks == {Part004, Part002}

\* Token amounts are strings of decimal digits without leading zeros; <<>>
\* stands for no call made.
NoFunding(t) == [task |-> t, approved |-> <<>>, transferred |-> <<>>]

\* ethers.parseUnits(value, decimals) of a whole number
ParseUnits(value, decimals) == value \o [k \in 1..decimals |-> 0]

\* part_004 line 614, part_002 line 621: parseUnits("2", 18)
ApproveAmount(t) == ParseUnits(<<2>>, 18)

\* part_004 line 636: parseUnits("2", 18); part_002 line 643:
\* parseUnits("100", 18)
TransferAmount(t) ==
  IF t = Part002 THEN ParseUnits(<<1, 0, 0>>, 18) ELSE ParseUnits(<<2>>, 18)

\* Line 614: await linkToken.approve(coordinatorAddress, 2 LINK)
Approve ==
  /\ pc = "approve"
  /\ funding' = [funding EXCEPT !.approved = ApproveAmount(funding.task)]
  /\ \/ /\ sent' = Append(sent, "approve")
        /\ pc' = "approveWait"
        /\ UNCHANGED <<mined, failedAt, thrown>>
     \/ /\ Throw("approve")
        /\ UNCHANGED <<sent, mined>>
  /\ UNCHANGED <<scriptVars, resolveVars, addError, identified, encodedSubId, requestId,
                 eventRequestId, elapsed, chainVars, watchVars>>

\* The receipt of approve is not awaited.
ApproveWaitUnawaited ==
  /\ pc = "approveWait"
  /\ pc' = "transfer"
  /\ UNCHANGED <<scriptVars, resolveVars, txVars, laterVars>>

\* Line 615: await approveTx.wait()
ApproveWait ==
  /\ pc = "approveWait"
  /\ \/ /\ mined' = mined \cup {"approve"}
        /\ pc' = "transfer"
        /\ UNCHANGED <<sent, failedAt, thrown>>
     \/ /\ Throw("approve")
        /\ UNCHANGED <<sent, mined>>
  /\ UNCHANGED <<scriptVars, resolveVars, laterVars>>

\* Lines 623-631: every id of the model fits 64 bits, so the uint64 encoding of
\* line 625 succeeds; the payload is the id as one 32-byte word.
EncodeSubId(v) == [type |-> "uint64", word |-> v]

\* Lines 623-639: encode, then await linkToken.transferAndCall(...)
TransferAndCall ==
  /\ pc = "transfer"
  /\ encodedSubId' = EncodeSubId(subId)
  /\ funding' = [funding EXCEPT !.transferred = TransferAmount(funding.task)]
  /\ \/ /\ sent' = Append(sent, "transferAndCall")
        /\ pc' = "transferWait"
        /\ UNCHANGED <<mined, failedAt, thrown>>
     \/ /\ Throw("transferAndCall")
        /\ UNCHANGED <<sent, mined>>
  /\ UNCHANGED <<scriptVars, resolveVars, addError, identified, requestId, eventRequestId, elapsed,
                 chainVars, watchVars>>

\* Line 640: await fundTx.wait()
TransferWait ==
  /\ pc = "transferWait"
  /\ \/ /\ mined' = mined \cup {"transferAndCall"}
        /\ pc' = "request"
        /\ UNCHANGED <<sent, failedAt, thrown>>
     \/ /\ Throw("transferAndCall")
        /\ UNCHANGED <<sent, mined>>
  /\ UNCHANGED <<scriptVars, resolveVars, laterVars>>

\* -------------------------------------------- STEP 6: request randomness
\* Lines 647-668: the key hash is s_provingKeyHashes(0) or the zero hash; either
\* way the request is sent.
RequestRandomness ==
  /\ pc = "request"
  /\ \/ /\ sent' = Append(sent, "requestRandomness")
        /\ pc' = "requestWait"
        /\ UNCHANGED <<mined, failedAt, thrown>>
     \/ /\ Throw("requestRandomness")
        /\ UNCHANGED <<sent, mined>>
  /\ UNCHANGED <<scriptVars, resolveVars, laterVars>>

\* Line 671: await requestTx.wait(). Mining the request makes the coordinator
\* assign its id and emit RandomWordsRequested (or nothing the task recognises).
RequestWait ==
  /\ pc = "requestWait"
  /\ \/ /\ mined' = mined \cup {"requestRandomness"}
        /\ reqOnChain' \in 1..MaxReq
        /\ eventTopic' \in 0..MaxReq
        /\ pc' = "readRequestId"
        /\ UNCHANGED <<sent, failedAt, thrown>>
     \/ /\ Throw("requestRandomness")
        /\ UNCHANGED <<sent, mined, reqOnChain, eventTopic>>
  /\ UNCHANGED <<scriptVars, resolveVars, flowVars, storage, cancelRequested, watchVars>>

\* Line 674: const requestId = await consumer.s_requestId()
ReadRequestId ==
  /\ pc = "readRequestId"
  /\ \/ /\ requestId' = reqOnChain
        /\ pc' = "checkEvents"
        /\ UNCHANGED <<failedAt, thrown>>
     \/ /\ Throw("readRequestId")
        /\ UNCHANGED requestId
  /\ UNCHANGED <<scriptVars, resolveVars, sent, mined, addError, identified, funding,
                 encodedSubId, eventRequestId,
                 elapsed, chainVars, watchVars>>

\* Lines 905, 929: what a tick accepts as fulfillment.
WordFound(st) == st.len > 0 /\ st.word # 0
Evidence(st) == WordFound(st) \/ st.gas > 0

\* Lines 677-863: the gas estimate and the event check only print; a failure
\* inside them is caught (lines 680, 855). eventRequestId (line 701) is a
\* block-scoped constant that is printed and dropped. Then the loop variables
\* are set up.
CheckEvents ==
  /\ pc = "checkEvents"
  /\ \/ eventRequestId' = eventTopic
     \/ eventRequestId' = 0
  /\ elapsed' = 0
  /\ evidenceAtStart' = Evidence(storage)
  /\ pc' = "wait"
  /\ UNCHANGED <<scriptVars, resolveVars, txVars, addError, identified, funding,
                 encodedSubId, requestId, chainVars,
                 ticks, pendingReports, lastFailed, eventProbe, watch>>

\* The coordinator fulfils the request at some point after it was mined.
Fulfill ==
  /\ pc \in {"readRequestId", "checkEvents", "wait"}
  /\ storage = EmptyStorage
  /\ storage' \in Storages \ {EmptyStorage}
  /\ UNCHANGED <<scriptVars, resolveVars, pc, txVars, flowVars, reqOnChain, eventTopic,
                 cancelRequested, watchVars>>

\* The caller asks for the watch to stop. The task takes no parameter through
\* which the request could reach the loop (lines 7-12), and the loop guard of
\* line 865 reads elapsed only: no action reads cancelRequested.
Cancel ==
  /\ pc = "wait"
  /\ ~cancelRequested
  /\ cancelRequested' = TRUE
  /\ UNCHANGED <<scriptVars, resolveVars, pc, txVars, flowVars, reqOnChain, eventTopic, storage,
                 watchVars>>

\* ------------------------------------------ STEP 7: wait for fulfillment
\* A loop that runs once more at the deadline.
WaitLoopCondInclusive == elapsed <= timeout

\* Line 865: while (elapsed < timeout)
WaitLoopCond == elapsed < timeout

\* The RPC reads of one tick in order (lines 873, 885, 900, 919, 936, 943),
\* if none of them throws.
TickReads(st) ==
  <<"slot1", "slot0">>
  \o (IF st.len > 0 THEN <<"word">> ELSE <<>>)
  \o (IF WordFound(st) THEN <<>>
      ELSE <<"slot3">> \o (IF st.gas > 0 THEN <<"blockNumber", "getLogs">> ELSE <<>>))

\* A tick that returns on a nonzero array length, whatever its first word.
TickFulfilledOnLength(st, fail) == fail = "" /\ (st.len > 0 \/ st.gas > 0)

\* A tick that returns on the random word only.
TickFulfilledWordOnly(st, fail) == fail = "" /\ WordFound(st)

\* Lines 905-911 and 929-983: the tick returns from the task.
TickFulfilled(st, fail) == fail = "" /\ Evidence(st)

\* Lines 953-983: the logs eth_getLogs returned: none (line 979), none whose
\* topics[1] is the request id (line 977), a matching one whose data decodes
\* (lines 963-968) or does not (line 970).
EventOutcomes == {"noLogs", "noMatch", "match", "undecodable"}

\* Line 929: the event probe runs when every read up to slot 3 answered, no
\* random word was found and gasAvailable > 0.
EventProbeRuns(st, fail) ==
  /\ fail \in {"", "blockNumber", "getLogs"}
  /\ ~WordFound(st) /\ st.gas > 0

\* An iteration whose failing read is not caught: the exception leaves the loop.
TickUncaught ==
  /\ pc = "wait" /\ WaitLoopCond
  /\ elapsed' = elapsed + waitInterval
  /\ ticks' = ticks + 1
  /\ \E fail \in {""} \cup {TickReads(storage)[k] : k \in 1..Len(TickReads(storage))} :
       /\ lastFailed' = fail
       /\ eventProbe' \in IF fail = "" /\ EventProbeRuns(storage, fail)
                           THEN EventOutcomes ELSE {""}
       /\ IF fail # ""
          THEN Throw("tick") /\ UNCHANGED <<watch, pendingReports, sent, mined>>
          ELSE IF TickFulfilled(storage, fail)
          THEN /\ watch' = "FULFILLED"
               /\ pc' = "done"
               /\ UNCHANGED <<pendingReports, txVars>>
          ELSE /\ pendingReports' = pendingReports + 1
               /\ UNCHANGED <<watch, pc, txVars>>
  /\ UNCHANGED <<scriptVars, resolveVars, addError, identified, funding, encodedSubId,
                 requestId, eventRequestId,
                 chainVars, evidenceAtStart>>

\* Lines 865-991: one iteration. fail: the read that throws into the catch of
\* line 986 ("" = none).
Tick ==
  /\ pc = "wait" /\ WaitLoopCond
  /\ elapsed' = elapsed + waitInterval
  /\ ticks' = ticks + 1
  /\ \E fail \in {""} \cup {TickReads(storage)[k] : k \in 1..Len(TickReads(storage))} :
       /\ lastFailed' = fail
       /\ eventProbe' \in IF fail = "" /\ EventProbeRuns(storage, fail)
                           THEN EventOutcomes ELSE {""}
       /\ IF TickFulfilled(storage, fail)
          THEN /\ watch' = "FULFILLED"
               /\ pc' = "done"
               /\ UNCHANGED pendingReports
          ELSE /\ pendingReports' = pendingReports + 1
               /\ UNCHANGED <<watch, pc>>
  /\ UNCHANGED <<scriptVars, resolveVars, txVars, addError, identified, funding,
                 encodedSubId, requestId, eventRequestId,
                 chainVars, evidenceAtStart>>

\* Line 993: the loop ran out; the task returns.
WaitTimeout ==
  /\ pc = "wait" /\ ~WaitLoopCond
  /\ watch' = "TIMED_OUT"
  /\ pc' = "done"
  /\ UNCHANGED <<scriptVars, resolveVars, txVars, flowVars, chainVars, ticks, pendingReports,
                 lastFailed, eventProbe, evidenceAtStart>>

NextFlow ==
  \/ DeployConsumer \/ AddConsumer \/ AddConsumerWait
  \/ Approve \/ ApproveWait \/ TransferAndCall \/ TransferWait
  \/ RequestRandomness \/ RequestWait \/ ReadRequestId \/ CheckEvents
  \/ Fulfill \/ Cancel \/ Tick \/ WaitTimeout

NextResolve ==
  \/ SnapshotExisting \/ CreateSubscription \/ CreateSubscriptionWait
  \/ EventDiff \/ ActiveScan \/ Probe100 \/ HexExtraction
  \/ TopicsLog \/ TopicsDone \/ Probe20 \/ Probe10 \/ Probe30
  \/ FindLatest \/ Recheck \/ Fallback

\* ------------------------------------- scripts/vrf2plus/deploy-vrf-system.ts
\* README, environment table: NETWORK_TYPE is one of these, default standard.
NetworkTypes == {"standard", "optimism", "arbitrum", "base"}

\* getVRFV2PlusDeployConfig(): the fields main() branches on.
Configs == [NETWORK_TYPE : NetworkTypes,
            USE_TEST_COORDINATOR : BOOLEAN,
            LINK_TOKEN_ADDRESS : {"", "0xlink"},
            LINK_NATIVE_TOKEN_FEED_ADDRESS : {"", "0xfeed"}]

DefaultConfig == [NETWORK_TYPE |-> "standard", USE_TEST_COORDINATOR |-> FALSE,
                  LINK_TOKEN_ADDRESS |-> "", LINK_NATIVE_TOKEN_FEED_ADDRESS |-> ""]

\* The script is not running.
DeployIdle == config = DefaultConfig /\ dpc = "idle" /\ deployed = <<>> /\ called = <<>>

\* The polling task is not running.
PollIdle ==
  /\ ppc = "idle" /\ assignedId = 0 /\ storedId = 0 /\ wordsStored = FALSE
  /\ pollRequestId = 0 /\ pollElapsed = 0 /\ fulfilledReports = 0 /\ timeoutReports = 0

\* No helper is being applied.
NoArg == [fn |-> "", v |-> 0]
NoRes == [done |-> FALSE, v |-> 0]
UtilIdle == arg = NoArg /\ res = NoRes

CoordinatorVariants == {"VRFCoordinatorV2_5_Optimism", "VRFCoordinatorV2_5_Arbitrum",
                        "VRFCoordinatorTestV2_5", "VRFCoordinatorV2_5"}

\* The flag is consulted first.
CoordinatorFactoryFlagFirst(c) ==
  IF c.USE_TEST_COORDINATOR THEN "VRFCoordinatorTestV2_5"
  ELSE IF c.NETWORK_TYPE \in {"optimism", "base"} THEN "VRFCoordinatorV2_5_Optimism"
  ELSE IF c.NETWORK_TYPE = "arbitrum" THEN "VRFCoordinatorV2_5_Arbitrum"
  ELSE "VRFCoordinatorV2_5"

\* Lines 42-73: the if / else-if chain that picks the contract factory.
CoordinatorFactory(c) ==
  IF c.NETWORK_TYPE = "optimism" \/ c.NETWORK_TYPE = "base"
  THEN "VRFCoordinatorV2_5_Optimism"
  ELSE IF c.NETWORK_TYPE = "arbitrum" THEN "VRFCoordinatorV2_5_Arbitrum"
  ELSE IF c.USE_TEST_COORDINATOR THEN "VRFCoordinatorTestV2_5"
  ELSE "VRFCoordinatorV2_5"

\* Lines 205-208: catch, log, rethrow; line 217 exits with code 1.
DeployThrow == dpc' = "failed" /\ UNCHANGED <<deployed, called>>

\* const X = await Factory.deploy(...); await X.waitForDeployment()
DeployContract(name, next) ==
  /\ \/ deployed' = Append(deployed, name) /\ dpc' = next /\ UNCHANGED called
     \/ DeployThrow
  /\ UNCHANGED <<config, taskVars, pollVars, utilVars>>

\* const tx = await contract.f(...); await tx.wait()
CallContract(name, next) ==
  /\ \/ called' = Append(called, name) /\ dpc' = next /\ UNCHANGED deployed
     \/ DeployThrow
  /\ UNCHANGED <<config, taskVars, pollVars, utilVars>>

\* Lines 24-29
DeployBlockhashStore ==
  /\ dpc = "bhs"
  /\ DeployContract("BlockhashStore", "batchBhs")

\* Lines 32-37
DeployBatchBlockhashStore ==
  /\ dpc = "batchBhs"
  /\ DeployContract("BatchBlockhashStore", "coordinator")

\* Lines 40-73: one branch runs, one factory deploys
DeployCoordinator ==
  /\ dpc = "coordinator"
  /\ DeployContract(CoordinatorFactory(config),
                    IF CoordinatorFactory(config) = "VRFCoordinatorV2_5_Optimism"
                    THEN "setL1Fee" ELSE "batchCoordinator")

\* Lines 49-54, inside the Optimism branch
SetL1FeeCalculation ==
  /\ dpc = "setL1Fee"
  /\ CallContract("setL1FeeCalculation", "batchCoordinator")

\* Lines 80-83
DeployBatchCoordinator ==
  /\ dpc = "batchCoordinator"
  /\ DeployContract("BatchVRFCoordinatorV2Plus", "linkToken")

\* contract-utils.ts lines 21-32: attach to the given LINK token or deploy one
SetupLinkToken ==
  /\ dpc = "linkToken"
  /\ \/ /\ deployed' = IF config.LINK_TOKEN_ADDRESS # "" THEN deployed
                       ELSE Append(deployed, "LinkToken")
        /\ dpc' = "linkFeed"
        /\ UNCHANGED called
     \/ DeployThrow
  /\ UNCHANGED <<config, taskVars, pollVars, utilVars>>

\* contract-utils.ts lines 35-47: attach to the given feed or deploy a mock
SetupLinkFeed ==
  /\ dpc = "linkFeed"
  /\ \/ /\ deployed' = IF config.LINK_NATIVE_TOKEN_FEED_ADDRESS # "" THEN deployed
                       ELSE Append(deployed, "VRFMockETHLINKAggregator")
        /\ dpc' = "setConfig"
        /\ UNCHANGED called
     \/ DeployThrow
  /\ UNCHANGED <<config, taskVars, pollVars, utilVars>>

\* Lines 91-102
SetConfig ==
  /\ dpc = "setConfig"
  /\ CallContract("setConfig", "setLink")

\* Lines 107-111
SetLinkAndFeed ==
  /\ dpc = "setLink"
  /\ CallContract("setLINKAndLINKNativeFeed", "provingKey")

\* Lines 116-118
RegisterProvingKey ==
  /\ dpc = "provingKey"
  /\ CallContract("registerProvingKey", "consumer")

\* Lines 122-125
DeployTestConsumer ==
  /\ dpc = "consumer"
  /\ DeployContract("VRFConsumerV2Plus", "createSub")

\* Lines 129-134
SystemCreateSubscription ==
  /\ dpc = "createSub"
  /\ CallContract("createSubscription", "addConsumer")

\* Lines 139-140
SystemAddConsumer ==
  /\ dpc = "addConsumer"
  /\ CallContract("addConsumer", "fundLink")

\* Lines 144-155
FundWithLink ==
  /\ dpc = "fundLink"
  /\ CallContract("transferAndCall", "fundNative")

\* Lines 159-166; the deployment record is printed and returned (lines 169-204)
FundWithNative ==
  /\ dpc = "fundNative"
  /\ CallContract("fundSubscriptionWithNative", "done")

NextDeploy ==
  \/ DeployBlockhashStore \/ DeployBatchBlockhashStore \/ DeployCoordinator
  \/ SetL1FeeCalculation \/ DeployBatchCoordinator \/ SetupLinkToken \/ SetupLinkFeed
  \/ SetConfig \/ SetLinkAndFeed \/ RegisterProvingKey \/ DeployTestConsumer
  \/ SystemCreateSubscription \/ SystemAddConsumer \/ FundWithLink \/ FundWithNative

\* ------------------- scripts/vrfv2plus/test-randomness-request.ts, lines 95-178
\* A request id is a uint256 of the coordinator's choosing.
RequestIds == 0..MaxReq

\* Line 142: tx.value, the ether sent with the transaction; requestRandomness
\* is called without overrides (lines 131-138).
TxValue == 0

\* Lines 129-141: key hash, consumer.requestRandomness(...), tx.wait(). The
\* consumer stores the id the coordinator returns as s_requestId.
PollRequest ==
  /\ ppc = "request"
  /\ \/ \E id \in RequestIds :
          /\ assignedId' = id
          /\ storedId' = id
          /\ ppc' = "mined"
     \/ ppc' = "failed" /\ UNCHANGED <<assignedId, storedId>>
  /\ UNCHANGED <<wordsStored, pollRequestId, pollElapsed, fulfilledReports, timeoutReports,
                 taskVars, deployVars, utilVars>>

\* Lines 142-150: const requestId = tx.value
PollReadRequestId ==
  /\ ppc = "mined"
  /\ pollRequestId' = TxValue
  /\ ppc' = "loop"
  /\ UNCHANGED <<assignedId, storedId, wordsStored, pollElapsed, fulfilledReports,
                 timeoutReports, taskVars, deployVars, utilVars>>

\* The coordinator fulfils the request the consumer holds.
ConsumerFulfilled ==
  /\ ppc \in {"mined", "loop"}
  /\ ~wordsStored
  /\ wordsStored' = TRUE
  /\ UNCHANGED <<ppc, assignedId, storedId, pollRequestId, pollElapsed, fulfilledReports,
                 timeoutReports, taskVars, deployVars, utilVars>>

\* Another caller requests through the same consumer: s_requestId is replaced.
ConsumerRequestedAgain ==
  /\ ppc \in {"mined", "loop"}
  /\ storedId = assignedId
  /\ \E id \in RequestIds \ {storedId} : storedId' = id
  /\ UNCHANGED <<ppc, assignedId, wordsStored, pollRequestId, pollElapsed, fulfilledReports,
                 timeoutReports, taskVars, deployVars, utilVars>>

\* Lines 152-172: one iteration. s_randomWords(0) reverts on an empty array;
\* fail: the read the transport lets down ("" = none). Line 171 stands before
\* the brace that closes the while of line 152: the timeout message is printed
\* by every iteration that does not return.
PollTick ==
  /\ ppc = "loop" /\ pollElapsed < timeout
  /\ pollElapsed' = pollElapsed + waitInterval
  /\ \E fail \in {"", "s_requestId", "s_randomWords"} :
       IF fail = "" /\ wordsStored /\ storedId = pollRequestId
       THEN /\ fulfilledReports' = fulfilledReports + 1
            /\ ppc' = "done"
            /\ UNCHANGED timeoutReports
       ELSE /\ timeoutReports' = timeoutReports + 1
            /\ UNCHANGED <<ppc, fulfilledReports>>
  /\ UNCHANGED <<assignedId, storedId, wordsStored, pollRequestId, taskVars, deployVars,
                 utilVars>>

\* Line 152 is false: the action returns (line 173 closes the try).
PollLoopEnd ==
  /\ ppc = "loop" /\ ~(pollElapsed < timeout)
  /\ ppc' = "done"
  /\ UNCHANGED <<assignedId, storedId, wordsStored, pollRequestId, pollElapsed,
                 fulfilledReports, timeoutReports, taskVars, deployVars, utilVars>>

NextPoll ==
  \/ PollRequest \/ PollReadRequestId \/ ConsumerFulfilled \/ ConsumerRequestedAgain
  \/ PollTick \/ PollLoopEnd

\* The task starts against any coordinator: any subscriptions, any id for the
\* one it is about to create, any layout of the creation receipt.
InitTask ==
  /\ pc = "snapshot"
  /\ existing = {} /\ logs = <<>> /\ newIds = {} /\ subId = 0 /\ li = 0
  /\ maxExistingId = 0 /\ firstSubExists = FALSE
  /\ enumOk = {} /\ okNew = {} /\ verified = {} /\ ran = {} /\ via = ""
  /\ sent = <<>> /\ mined = {} /\ failedAt = "" /\ thrown = NoError
  /\ addError = NoRevert /\ identified = NoReport /\ funding = NoFunding(Part004)
  /\ encodedSubId = NoPayload
  /\ requestId = 0 /\ eventRequestId = 0
  /\ elapsed = 0
  /\ reqOnChain = 0 /\ eventTopic = 0 /\ storage = EmptyStorage
  /\ cancelRequested = FALSE
  /\ ticks = 0 /\ pendingReports = 0 /\ lastFailed = "" /\ eventProbe = ""
  /\ evidenceAtStart = FALSE
  /\ watch = "PENDING"

InitResolve ==
  /\ subs \in {f \in [AllIds -> SubStates] : f[HashId] = NoSub /\ f[FarId] = NoSub}
  /\ newSubId \in {i \in AllIds : subs[i] = NoSub}
  /\ createLogs \in Receipts
  /\ InitTask
  /\ DeployIdle /\ PollIdle /\ UtilIdle

SpecResolve == InitResolve /\ [][NextResolve]_vars

\* Steps 3-7 start where discovery ends: here, after the event diff found the
\* subscription the run created on a fresh coordinator.
EmptyChain == [i \in AllIds |-> NoSub]

InitFlow ==
  /\ subId \in 1..MaxId
  /\ subs = [EmptyChain EXCEPT ![subId] = FreshSub]
  /\ newSubId = subId /\ createLogs = <<>>
  /\ pc = "deploy"
  /\ existing = {} /\ logs = <<>> /\ newIds = {subId} /\ li = 0
  /\ maxExistingId = 0 /\ firstSubExists = FALSE
  /\ enumOk = {"pre", "post"} /\ okNew = {subId} /\ verified = {subId}
  /\ ran = {"eventDiff"} /\ via = "eventDiff"
  /\ sent = <<"createSubscription">> /\ mined = {"createSubscription"} /\ failedAt = ""
  /\ thrown = NoError
  /\ addError = NoRevert /\ identified = NoReport /\ funding = NoFunding(Part004)
  /\ encodedSubId = NoPayload
  /\ requestId = 0 /\ eventRequestId = 0
  /\ elapsed = 0
  /\ reqOnChain = 0 /\ eventTopic = 0 /\ storage = EmptyStorage
  /\ cancelRequested = FALSE
  /\ ticks = 0 /\ pendingReports = 0 /\ lastFailed = "" /\ eventProbe = ""
  /\ evidenceAtStart = FALSE
  /\ watch = "PENDING"
  /\ DeployIdle /\ PollIdle /\ UtilIdle

SpecFlow == InitFlow /\ [][NextFlow]_vars

\* Steps 5 and 6 of either task, from the state in which the consumer has
\* been added to the subscription.
NextFund ==
  \/ Approve \/ ApproveWait \/ TransferAndCall \/ TransferWait
  \/ RequestRandomness \/ RequestWait \/ ReadRequestId \/ CheckEvents \/ Fulfill

InitFund ==
  /\ subId \in 1..MaxId
  /\ subs = [EmptyChain EXCEPT ![subId] = FreshSub]
  /\ newSubId = subId /\ createLogs = <<>>
  /\ pc = "approve"
  /\ existing = {} /\ logs = <<>> /\ newIds = {subId} /\ li = 0
  /\ maxExistingId = 0 /\ firstSubExists = FALSE
  /\ enumOk = {"pre", "post"} /\ okNew = {subId} /\ verified = {subId}
  /\ ran = {"eventDiff"} /\ via = "eventDiff"
  /\ sent = <<"createSubscription", "deployConsumer", "addConsumer">>
  /\ mined = {"createSubscription", "deployConsumer", "addConsumer"}
  /\ failedAt = "" /\ thrown = NoError
  /\ addError = NoRevert /\ identified = NoReport /\ encodedSubId = NoPayload
  /\ \E t \in Tasks : funding = NoFunding(t)
  /\ requestId = 0 /\ eventRequestId = 0
  /\ elapsed = 0
  /\ reqOnChain = 0 /\ eventTopic = 0 /\ storage = EmptyStorage
  /\ cancelRequested = FALSE
  /\ ticks = 0 /\ pendingReports = 0 /\ lastFailed = "" /\ eventProbe = ""
  /\ evidenceAtStart = FALSE
  /\ watch = "PENDING"
  /\ DeployIdle /\ PollIdle /\ UtilIdle

SpecFund == InitFund /\ [][NextFund]_vars

\* The wait loop on its own, from the states in which line 865 is first
\* reached: every transaction mined, the request id read, the consumer
\* fulfilled already or not yet.
NextWatch == Fulfill \/ Cancel \/ Tick \/ WaitTimeout

InitWatch ==
  /\ subId = 1
  /\ subs = [EmptyChain EXCEPT ![1] = FreshSub]
  /\ newSubId = 1 /\ createLogs = <<>>
  /\ pc = "wait"
  /\ existing = {} /\ logs = <<>> /\ newIds = {1} /\ li = 0
  /\ maxExistingId = 0 /\ firstSubExists = FALSE
  /\ enumOk = {"pre", "post"} /\ okNew = {1} /\ verified = {1}
  /\ ran = {"eventDiff"} /\ via = "eventDiff"
  /\ sent = <<"createSubscription", "deployConsumer", "addConsumer", "approve",
              "transferAndCall", "requestRandomness">>
  /\ mined = {"createSubscription", "deployConsumer", "addConsumer", "approve",
              "transferAndCall", "requestRandomness"}
  /\ failedAt = "" /\ thrown = NoError
  /\ addError = NoRevert /\ identified = NoReport /\ encodedSubId = EncodeSubId(1)
  /\ funding = [task |-> Part004, approved |-> ApproveAmount(Part004),
                transferred |-> TransferAmount(Part004)]
  /\ reqOnChain \in 1..MaxReq /\ requestId = reqOnChain
  /\ eventTopic = 0 /\ eventRequestId = 0
  /\ elapsed = 0
  /\ storage \in Storages /\ evidenceAtStart = Evidence(storage)
  /\ cancelRequested = FALSE
  /\ ticks = 0 /\ pendingReports = 0 /\ lastFailed = "" /\ eventProbe = ""
  /\ watch = "PENDING"
  /\ DeployIdle /\ PollIdle /\ UtilIdle

\* The request task of part_004 is not running.
TaskIdle == subs = EmptyChain /\ newSubId = 1 /\ createLogs = <<>> /\ InitTask

\* The task is started for a consumer that may have been used before.
InitPoll ==
  /\ ppc = "request" /\ assignedId = 0
  /\ storedId \in RequestIds /\ wordsStored \in BOOLEAN
  /\ pollRequestId = 0 /\ pollElapsed = 0 /\ fulfilledReports = 0 /\ timeoutReports = 0
  /\ TaskIdle /\ DeployIdle /\ UtilIdle

SpecPoll == InitPoll /\ [][NextPoll]_vars

\* ===================================================== scripts and helpers
\* Hex strings are sequences of hex digits 0..15, without the "0x".
Zeros(n) == [k \in 1..n |-> 0]

\* String.prototype.padStart(n, '0')
PadStart(s, n) == IF Len(s) >= n THEN s ELSE Zeros(n - Len(s)) \o s

\* A helper returns v.
Return(v) ==
  /\ res' = [done |-> TRUE, v |-> v]
  /\ UNCHANGED <<arg, taskVars, deployVars, pollVars>>

\* ----------------------------------------- the check-commitment script
\* Line 85 of part_005: the literal the commitment is compared with, "0x" and
\* 64 zeros.
ZeroCommitment == Zeros(64)

\* bytes32 values s_requestCommitments can answer, as ethers prints them.
Commitments ==
  {ZeroCommitment}
  \cup {[ZeroCommitment EXCEPT ![k] = d] : k \in {1, 32, 64}, d \in {1, 15}}

\* A zero commitment is taken as proof of fulfillment.
CommitmentReportZeroFulfilled(c) ==
  IF c = ZeroCommitment
  THEN {"already fulfilled"}
  ELSE {"exists", "not fulfilled yet"}

\* Lines 85-93 of part_005: what the script prints about the commitment.
CommitmentReport(c) ==
  IF c = ZeroCommitment
  THEN {"does not exist", "already fulfilled", "wrong network or coordinator"}
  ELSE {"exists", "not fulfilled yet"}

\* Lines 50-171 of part_005: main() from the read of the commitment on; a
\* read that throws goes to the catch of line 161.
CheckCommitment ==
  /\ arg.fn = "checkCommitment" /\ ~res.done
  /\ \/ Return(CommitmentReport(arg.v))
     \/ Return({"ERROR"})

\* ------------------------------ STEP 5: the payload of transferAndCall
\* A subscription id (a bigint) as its base-256 digits, least significant
\* first, without leading zero digits: 0 is <<>>.
BigInt256(len, top, low) ==
  [k \in 1..len |-> IF k = len THEN top ELSE IF k = 1 THEN low ELSE 0]

SubIdValues ==
  {<<>>, <<1>>, <<255>>}
  \cup {BigInt256(len, top, low) : len \in {2, 8, 9, 16, 32}, top \in {1, 255}, low \in {0, 7}}

Reverse(s) == [k \in 1..Len(s) |-> s[Len(s) + 1 - k]]

\* An encoder that drops the bytes beyond the width of the type.
AbiEncodeUintTruncating(bytes, n) ==
  LET m == SubSeq(n, 1, Min({bytes, Len(n)}))
  IN [ok |-> TRUE, word |-> Zeros(32 - Len(m)) \o Reverse(m)]

\* AbiCoder.encode(['uint<8*bytes>'], [n]): one 32-byte big-endian word; a
\* value out of the range of the type throws.
AbiEncodeUint(bytes, n) ==
  IF Len(n) > bytes
  THEN [ok |-> FALSE, word |-> <<>>]
  ELSE [ok |-> TRUE, word |-> Zeros(32 - Len(n)) \o Reverse(n)]

\* Lines 623-631 of part_004: uint64 first, uint256 in the catch.
EncodeAuxData(n) ==
  LET narrow == AbiEncodeUint(8, n)
  IN IF narrow.ok
     THEN [type |-> "uint64", word |-> narrow.word]
     ELSE [type |-> "uint256", word |-> AbiEncodeUint(32, n).word]

EncodeFunding ==
  /\ arg.fn = "encodeSubId" /\ ~res.done
  /\ Return(EncodeAuxData(arg.v))

\* ------------------------- the binary search against scripted answers
\* Lines 396-398: left, right and maxExistingId before the loop; calls and
\* succeeded record the getSubscription calls made and the ids that answered.
SearchStart ==
  [left |-> 1, right |-> 1000, maxExistingId |-> 0, calls |-> 0, succeeded |-> {}]

Mid(st) == (st.left + st.right) \div 2

\* An iteration that takes mid for the maximum whatever the call answered.
SearchStepTrusting(st, answered) ==
  IF answered
  THEN [st EXCEPT !.maxExistingId = Max({st.maxExistingId, Mid(st)}),
                  !.left = Mid(st) + 1,
                  !.calls = st.calls + 1,
                  !.succeeded = st.succeeded \cup {Mid(st)}]
  ELSE [st EXCEPT !.maxExistingId = Max({st.maxExistingId, Mid(st)}),
                  !.right = Mid(st) - 1,
                  !.calls = st.calls + 1]

\* Lines 401-410: one iteration; answered: getSubscription(mid) did not throw.
SearchStep(st, answered) ==
  IF answered
  THEN [st EXCEPT !.maxExistingId = Max({st.maxExistingId, Mid(st)}),
                  !.left = Mid(st) + 1,
                  !.calls = st.calls + 1,
                  !.succeeded = st.succeeded \cup {Mid(st)}]
  ELSE [st EXCEPT !.right = Mid(st) - 1,
                  !.calls = st.calls + 1]

\* Line 400: while (left <= right), the k-th call answered by answers[k].
RECURSIVE SearchLoop(_, _)
SearchLoop(st, answers) ==
  IF st.left > st.right THEN st
  ELSE SearchLoop(SearchStep(st, answers[(st.calls % Len(answers)) + 1]), answers)

SearchAnswers == [1..MaxAnswers -> BOOLEAN]

RunBinarySearch ==
  /\ arg.fn = "binarySearch" /\ ~res.done
  /\ Return(SearchLoop(SearchStart, arg.v))

\* ------------------------------------------- STEP 7: the event probe
\* Number.prototype.toString(16) and BigInt.prototype.toString(16)
RECURSIVE ToHex(_)
ToHex(n) == IF n < 16 THEN <<n>> ELSE ToHex(n \div 16) \o <<n % 16>>

\* parseInt(s, 16) of a string of hex digits
RECURSIVE ParseHex(_)
ParseHex(s) ==
  IF Len(s) = 0 THEN 0 ELSE 16 * ParseHex(SubSeq(s, 1, Len(s) - 1)) + s[Len(s)]

\* The window of the probe, in blocks.
EventWindow == 20

\* Line 941: Math.max(currentBlockNumber - 20, 0)
FromBlock(currentBlockNumber) == Max({currentBlockNumber - EventWindow, 0})

\* The request id as a topic without padding.
RequestIdHexUnpadded(rid) == ToHex(rid)

\* Line 956: requestId.toString(16).padStart(64, '0')
RequestIdHex(rid) == PadStart(ToHex(rid), 64)

\* Line 959: log.topics.length > 1 && log.topics[1] === requestIdHex
LogMatches(log, rid) == Len(log.topics) > 1 /\ log.topics[2] = RequestIdHex(rid)

\* Lines 958-975: the first log of the answer that matches (0 = none).
FirstMatch(ls, rid) ==
  IF \E k \in 1..Len(ls) : LogMatches(ls[k], rid)
  THEN Min({k \in 1..Len(ls) : LogMatches(ls[k], rid)})
  ELSE 0

\* Block heights, request ids and 32-byte topics of the probe's inputs. A
\* topic is 64 hex digits; HighTopic differs from the padded id in its first
\* digit only.
BlockNumbers == {0, 7, 19, 20, 21, 300}
ProbeRequestIds == {0, 1, 255, 1048581}
FulfilledTopic == [k \in 1..64 |-> 7]
HighTopic(v) == [PadStart(ToHex(v), 64) EXCEPT ![1] = 1]
ProbeTopics == {PadStart(ToHex(v), 64) : v \in {1, 255}} \cup {HighTopic(255)}
ProbeLogs ==
  {[topics |-> <<>>], [topics |-> <<FulfilledTopic>>]}
  \cup {[topics |-> <<FulfilledTopic, t>>] : t \in ProbeTopics}
  \cup {[topics |-> <<FulfilledTopic, t, FulfilledTopic>>] : t \in ProbeTopics}
ProbeAnswers ==
  {<<>>} \cup {<<a>> : a \in ProbeLogs}
  \cup {<<[topics |-> <<FulfilledTopic>>], a>> : a \in ProbeLogs}

\* Lines 936-975 of part_004: the node answers eth_blockNumber with the hex
\* of its height n; the probe asks for the logs from fromBlock on and looks
\* for the request id among the logs of the answer.
ScanEvents ==
  /\ arg.fn = "scanEvents" /\ ~res.done
  /\ LET currentBlock == ToHex(arg.v.n)
         currentBlockNumber == ParseHex(currentBlock)
     IN Return([fromBlock |-> FromBlock(currentBlockNumber),
                found |-> FirstMatch(arg.v.logs, arg.v.requestId)])

\* ------------------------------------------ encodeOnChainVRFProvingKey
\* Strings of hex digits with the letter x as 16.
Prefix0x == <<0, 16>>
Prefix04 == <<0, 4>>

\* String.prototype.startsWith
StartsWith(s, p) == Len(s) >= Len(p) /\ SubSeq(s, 1, Len(p)) = p

\* String.prototype.slice(from, to): 0-based, to exclusive and clamped
Slice(s, from, to) == SubSeq(s, from + 1, Min({to, Len(s)}))

\* y % 2n === 0n, yBig & 1n: the parity of the last hex digit
IsOdd(hex) == Len(hex) > 0 /\ hex[Len(hex)] % 2 = 1

\* Coordinates of 32 bytes: x begins with the byte 04, with 05 or with ab.
KeyXs == {[k \in 1..64 |-> IF k = 1 THEN b[1] ELSE IF k = 2 THEN b[2]
                           ELSE IF k = 64 THEN 1 ELSE 0] :
            b \in {<<0, 4>>, <<0, 5>>, <<10, 11>>}}
KeyYs == {[k \in 1..64 |-> IF k = 1 THEN 7 ELSE IF k = 64 THEN d ELSE 0] : d \in {2, 3}}
KeyInputs == [x : KeyXs, y : KeyYs, with0x : BOOLEAN, with04 : BOOLEAN]

\* The string the caller passes for a key.
KeyString(key) ==
  (IF key.with0x THEN Prefix0x ELSE <<>>)
  \o (IF key.with04 THEN Prefix04 ELSE <<>>)
  \o key.x \o key.y

KeyRejected == [ok |-> FALSE, coordinates |-> <<>>, compressed |-> <<>>]

\* Lines 146-190 of part_001; the hex strings of the result without "0x".
encodeOnChainVRFProvingKeyPart1(uncompressedPubKey) ==
  LET stripped == IF StartsWith(uncompressedPubKey, Prefix0x)
                  THEN Slice(uncompressedPubKey, 2, Len(uncompressedPubKey))
                  ELSE uncompressedPubKey
      pubKeyBytes == IF ~StartsWith(stripped, Prefix04)
                     THEN Prefix04 \o stripped ELSE stripped
      xHex == Slice(pubKeyBytes, 2, 66)
      yHex == Slice(pubKeyBytes, 66, 130)
      prefix == IF ~IsOdd(yHex) THEN <<0, 2>> ELSE <<0, 3>>
  IN [ok |-> TRUE, coordinates |-> <<xHex, yHex>>, compressed |-> prefix \o xHex]

\* Lines 182-208 of scripts/utils/weth.ts
encodeOnChainVRFProvingKey(uncompressed) ==
  LET stripped == IF StartsWith(uncompressed, Prefix0x)
                  THEN Slice(uncompressed, 2, Len(uncompressed))
                  ELSE uncompressed
      hex == IF StartsWith(stripped, Prefix04)
             THEN Slice(stripped, 2, Len(stripped)) ELSE stripped
      xHex == Slice(hex, 0, 64)
      yHex == Slice(hex, 64, 128)
      prefix == IF IsOdd(yHex) THEN <<0, 3>> ELSE <<0, 2>>
  IN IF Len(hex) # 128 THEN KeyRejected
     ELSE [ok |-> TRUE, coordinates |-> <<xHex, yHex>>, compressed |-> prefix \o xHex]

EncodeProvingKeyPart1 ==
  /\ arg.fn = "provingKeyPart1" /\ ~res.done
  /\ Return(encodeOnChainVRFProvingKeyPart1(KeyString(arg.v)))

EncodeProvingKey ==
  /\ arg.fn = "provingKey" /\ ~res.done
  /\ Return(encodeOnChainVRFProvingKey(KeyString(arg.v)))

NextUtil ==
  \/ CheckCommitment
  \/ EncodeFunding
  \/ ScanEvents
  \/ EncodeProvingKeyPart1
  \/ EncodeProvingKey
  \/ RunBinarySearch

InitUtil ==
  /\ \/ arg \in [fn : {"checkCommitment"}, v : Commitments]
     \/ arg \in [fn : {"encodeSubId"}, v : SubIdValues]
     \/ arg \in [fn : {"scanEvents"},
                  v : [n : BlockNumbers, logs : ProbeAnswers, requestId : ProbeRequestIds]]
     \/ arg \in [fn : {"provingKey", "provingKeyPart1"}, v : KeyInputs]
     \/ arg \in [fn : {"binarySearch"}, v : SearchAnswers]
  /\ res = NoRes
  /\ TaskIdle /\ DeployIdle /\ PollIdle

SpecUtil == InitUtil /\ [][NextUtil]_vars

\* main() of the deployment script under every documented configuration; the
\* request task is not running.
InitDeploy ==
  /\ config \in Configs
  /\ dpc = "bhs" /\ deployed = <<>> /\ called = <<>>
  /\ TaskIdle /\ PollIdle /\ UtilIdle

SpecDeploy == InitDeploy /\ [][NextDeploy]_vars

\* The timer of line 866 fires and the loop of line 865 is evaluated: an
\* iteration that can run does run.
SpecWatchFair ==
  InitWatch /\ [][NextWatch]_vars /\ WF_vars(Tick) /\ WF_vars(WaitTimeout)


\* ======================================================= discovery claims
Range(q) == {q[k] : k \in 1..Len(q)}

\* C1: the subscription id with which the flow proceeds to consumer deployment
\* is one for which a getSubscription call of this run returned owner = signer.
C1_ProceedsWithVerifiedId == pc = "deploy" => subId \in verified

\* C7: an id accepted by a sequential-id probe (1..100, 1..20, 1..10, 11..30)
\* is owned by the signer and has request counter zero.
C7_ProbeAcceptsOnlyFresh ==
  (pc = "deploy" /\ via \in {"probe100", "probe20", "probe10", "probe30"})
    => (subs[subId].owner = "signer" /\ subs[subId].reqCount = 0)

\* Both enumerations answered and the difference holds exactly one id owned by
\* the signer.
OneNewOwned ==
  /\ "eventDiff" \in ran
  /\ enumOk = {"pre", "post"}
  /\ Cardinality({i \in newIds : Owner(i) = "signer"}) = 1

SelectedByEventDiff ==
  /\ pc = "deploy"
  /\ via = "eventDiff"
  /\ subId \in newIds /\ Owner(subId) = "signer"
  /\ ran = {"eventDiff"}

C9_LastResort ==
  ("fallback" \in ran /\ \A i \in InRange(2, 5) : Owner(i) # "signer")
    => /\ (firstSubExists /\ Owner(1) # "signer")
            => /\ pc = "failed" /\ failedAt = "discovery"
               /\ sent = <<"createSubscription">>
               /\ ~ENABLED NextFlow
       /\ ~firstSubExists => (pc = "deploy" /\ subId = 1)

C9_Witness ==
  /\ "fallback" \in ran /\ firstSubExists /\ Owner(1) = "other"
  /\ \A i \in InRange(2, 5) : Owner(i) # "signer"
  /\ pc = "failed"

C9_WitnessProceeds ==
  /\ "fallback" \in ran /\ ~firstSubExists
  /\ pc = "deploy" /\ subId = 1

\* C10: when no source yields a subscription id the flow does not continue
\* with a placeholder constant.
C10_NoPlaceholderId ==
  ("fallback" \in ran /\ via \notin {"sub1", "sub2to5"}) => pc = "failed"


\* ================================================== flow and watch claims
Position(name) == Min({k \in 1..Len(sent) : sent[k] = name})

\* C2: transferAndCall is sent only after approve was sent and its receipt
\* awaited; if approve or its wait rejects, transferAndCall is never sent.
C2_ApproveBeforeTransfer ==
  /\ "transferAndCall" \in Range(sent)
       => /\ "approve" \in Range(sent) /\ "approve" \in mined
          /\ Position("approve") < Position("transferAndCall")
  /\ failedAt = "approve" => "transferAndCall" \notin Range(sent)

C2_Witness == "transferAndCall" \in Range(sent) /\ "approve" \in mined

\* C3: when the s_requestId read and the request id of the RandomWordsRequested
\* log are both available and differ, the flow raises an error and does not
\* start the fulfillment wait.
C3_MismatchRaised ==
  (requestId # 0 /\ eventRequestId # 0 /\ requestId # eventRequestId)
    => pc \notin {"wait", "done"}

\* C4: when addConsumer reverts with selector 0x1f6a65b6 the flow creates one
\* subscription and retries addConsumer once; the failure surfaces only from
\* that recovery, and after a successful retry the flow goes on to funding.
C4_OneShotRecovery ==
  addError.selector = "0x1f6a65b6"
    => IF pc = "failed"
       THEN failedAt = "recovery"
       ELSE /\ SentCount("createSubscription") = 2
            /\ SentCount("addConsumer") \in {1, 2}
            /\ "addConsumer" \in mined

\* C5: a watch that no tick ends performs exactly 60 ticks, one sleep of
\* waitInterval before each, then reports the timeout and the task returns
\* without an exception.
C5_TimeoutAfter60Ticks ==
  /\ elapsed = ticks * waitInterval
  /\ watch = "TIMED_OUT"
       => /\ ticks = 60 /\ pendingReports = 60 /\ elapsed = timeout
          /\ pc = "done" /\ failedAt = ""

C5_Witness == watch = "TIMED_OUT" /\ pc = "done"

C11_ReadFailureSwallowed ==
  /\ [](lastFailed # ""
          => /\ failedAt = "" /\ pc \in {"wait", "done"}
             /\ watch # "FULFILLED" /\ pendingReports = ticks)
  /\ (pc = "wait") ~> (pc = "done" /\ watch \in {"FULFILLED", "TIMED_OUT"})

C11_Witness == lastFailed = "getLogs" /\ pc = "wait" /\ ticks = 2

\* C12: a tick that reads a nonzero length of the random-word array (slot 0)
\* ends the watch FULFILLED, whatever the first element and the gas marker are.
C12_NonzeroLengthFulfills ==
  [][(ticks' = ticks + 1 /\ storage.len > 0 /\ lastFailed' \notin {"slot1", "slot0"})
       => watch' = "FULFILLED"]_vars

\* C13: a tick that reads a nonzero gas-available marker (slot 3) ends the
\* watch FULFILLED for every outcome of the event probe that follows, a failure
\* of the block-number or log query included.
C13_GasMarkerFulfills ==
  [][(/\ ticks' = ticks + 1
      /\ ~WordFound(storage) /\ storage.gas > 0
      /\ lastFailed' \notin {"slot1", "slot0", "word", "slot3"})
       => watch' = "FULFILLED"]_vars

\* C24: the probes of one tick are independent: a tick whose read of the stored
\* request id (slot 1) or of the array length (slot 0) fails while the gas
\* marker is nonzero still observes the gas evidence and ends the watch
\* FULFILLED.
C24_GasSeenDespiteFailedRead ==
  [][(/\ ticks' = ticks + 1
      /\ storage.gas > 0
      /\ lastFailed' \in {"slot1", "slot0"})
       => watch' = "FULFILLED"]_vars

\* C31: the wait loop returns FULFILLED on a tick only if on that tick it read
\* a nonzero array length together with a nonzero first word, or a nonzero
\* gas-available marker; no FULFILLED follows a tick in which a read failed
\* or every read returned zero.
C31_FulfilledOnlyOnEvidence ==
  [][(watch # "FULFILLED" /\ watch' = "FULFILLED")
       => /\ ticks' = ticks + 1 /\ lastFailed' = ""
          /\ \/ storage.len > 0 /\ storage.word # 0
             \/ storage.gas > 0]_vars

C31_Witness ==
  /\ watch = "FULFILLED" /\ lastFailed = ""
  /\ storage.len > 0 /\ storage.word # 0 /\ storage.gas = 0

C31_WitnessNoEvidence ==
  /\ watch = "PENDING" /\ ticks >= 1 /\ lastFailed = ""
  /\ storage.len > 0 /\ storage.word = 0 /\ storage.gas = 0

\* a <= b for amounts written in decimal digits.
RECURSIVE DecimalLeq(_, _)
DecimalLeq(a, b) ==
  IF Len(a) # Len(b) THEN Len(a) < Len(b)
  ELSE IF Len(a) = 0 THEN TRUE
  ELSE IF a[1] # b[1] THEN a[1] < b[1]
  ELSE DecimalLeq(Tail(a), Tail(b))

\* C32: in every funding sequence the token amount passed to transferAndCall
\* does not exceed the amount passed to the approve call before it.
C32_TransferWithinApproval ==
  funding.transferred # <<>> => DecimalLeq(funding.transferred, funding.approved)

\* The sequence of part_004 keeps within its approval.
C32_Part004Within ==
  (funding.task = Part004 /\ funding.transferred # <<>>)
    => DecimalLeq(funding.transferred, funding.approved)

\* The createSubscription transactions among those sent.
Creates(q) == Cardinality({k \in 1..Len(q) : q[k] = "createSubscription"})

\* The steps of discovery (lines 77-529).
DiscoverySteps == {"diff", "activeScan", "probe100", "hex", "topics", "probe20",
                   "probe10", "probe30", "binsearch", "recheck", "fallback"}

\* C34: a run sends exactly one createSubscription transaction before
\* discovery and at most one more, and that one only after addConsumer
\* reverted with the NonExistentSubscription selector; no step of discovery
\* sends a transaction.
C34_OneCreateNoSendInDiscovery ==
  [][/\ pc \in DiscoverySteps => (Creates(sent) = 1 /\ sent' = sent)
     /\ Creates(sent') <= 2
     /\ Creates(sent') > Creates(sent)
          => \/ pc = "create" /\ sent = <<>>
             \/ /\ pc \in {"addConsumer", "addConsumerWait"}
                /\ addError'.selector = "0x1f6a65b6"
                /\ Creates(sent) = 1]_vars

C34_Witness ==
  /\ pc = "deploy" /\ via = "lastResort"
  /\ {"eventDiff", "binsearch", "fallback"} \subseteq ran
  /\ sent = <<"createSubscription">>

\* C14: once the caller's cancellation signal is raised, the loop stops at the
\* next boundary between ticks: no further probe is issued.
C14_CancelStopsLoop ==
  [][(cancelRequested /\ pc = "wait") => ticks' = ticks]_vars

InFlight == {k \in 1..Len(sent) : sent[k] \notin mined}

\* C15: the steps of a run are strictly sequential: createSubscription is mined
\* before discovery starts, addConsumer before approve is sent, approve before
\* transferAndCall is sent, transferAndCall before the request is sent, the
\* request before the first probe; at most one transaction is in flight.
C15_StrictlySequential ==
  /\ ran # {} => "createSubscription" \in mined
  /\ "approve" \in Range(sent) => "addConsumer" \in mined
  /\ "transferAndCall" \in Range(sent) => "approve" \in mined
  /\ "requestRandomness" \in Range(sent) => "transferAndCall" \in mined
  /\ ticks >= 1 => "requestRandomness" \in mined
  /\ Cardinality(InFlight) <= 1

C15_Witness == ticks >= 1 /\ Cardinality(mined) = 6 /\ InFlight = {}

\* The kind a caller can read back from the error the task rejected with:
\* from the selector of its revert data, or from the one message the script
\* writes for a missing subscription.
RecoverableKind(e) ==
  IF e.data.selector # "" THEN ErrorKind(e.data.selector)
  ELSE IF e.message = "Subscription does not exist" THEN "NonExistentSubscription"
  ELSE ""

C16_WitnessRethrown ==
  /\ failedAt = "addConsumer"
  /\ addError.selector = "0x756688fe"
  /\ thrown.data = addError

\* C26: the kind the catch block of addConsumer identifies depends only on
\* the leading 4-byte selector of the revert data, whatever follows it: the
\* four known selectors give their kinds, and for every other selector no kind
\* is named and the selector itself is printed.
C26_KindFromSelectorOnly ==
  addError.selector # ""
    => /\ identified.kind = ErrorKind(addError.selector)
       /\ ErrorKind(addError.selector) = "" => identified.selector = addError.selector

C26_Witness ==
  /\ addError = [selector |-> "0x756688fe", tail |-> 32]
  /\ identified.kind = "InvalidConsumer"

C26_WitnessUnknown ==
  /\ addError.selector = "0x08c379a0"
  /\ identified = [kind |-> "", selector |-> "0x08c379a0"]

\* The transactions of the task in the order of its steps.
StepOrder == <<"createSubscription", "deployConsumer", "addConsumer", "approve",
               "transferAndCall", "requestRandomness">>

\* C17: the task resolves exactly when the watch ended FULFILLED or TIMED_OUT;
\* a failed step rejects the task, which then does nothing more, and no
\* transaction of a later step has been sent.
C17_TaskOutcome ==
  /\ (pc = "done") <=> (watch \in {"FULFILLED", "TIMED_OUT"})
  /\ (pc = "failed") <=> (failedAt # "")
  /\ pc = "failed" => (watch = "PENDING" /\ ticks = 0 /\ ~ENABLED NextFlow)
  /\ \A k \in 1..Len(StepOrder) :
       failedAt = StepOrder[k]
         => \A j \in (k + 1)..Len(StepOrder) : StepOrder[j] \notin Range(sent)

C17_Witness ==
  /\ pc = "failed" /\ failedAt = "transferAndCall"
  /\ "approve" \in mined /\ "requestRandomness" \notin Range(sent)

C17_WitnessResolved == pc = "done" /\ watch = "TIMED_OUT" /\ Cardinality(mined) = 6

\* C18: a remote call outside the wait loop whose sending failed has been
\* attempted more than once by the time its failure ends the task.
C18_TransportRetried ==
  \A k \in 1..Len(StepOrder) :
    (failedAt = StepOrder[k] /\ SentCount(StepOrder[k]) = 0) => thrown.attempts > 1

\* The ids that were subscriptions before the creation transaction.
PreExisting == {i \in AllIds : subs[i] # NoSub /\ i # newSubId}

\* The ids the manual snapshot of lines 53-60 recorded.
Probed == {i \in AllIds : <<"number", i>> \in existing}

\* C21: when the enumeration fails before the creation transaction and answers
\* after it, an id that the snapshot recorded as existing before the creation
\* is no candidate of the event diff and is never selected by it.
C21_DiffSelectsOnlyNew ==
  ("pre" \notin enumOk /\ "post" \in enumOk)
    => /\ newIds \cap (Probed \cap PreExisting) = {}
       /\ via = "eventDiff" => subId \notin (Probed \cap PreExisting)

\* C22: when the binary search of lines 396-411 starts, the value it computes
\* with every getSubscription call answering is the highest existing id of
\* 1..1000 (0 when there is none).
C22_BinarySearchFindsHighest ==
  pc = "binsearch"
    => BinarySearch(1, 1000, 0, Existing(1, 1000)) = Max(Existing(1, 1000) \cup {0})

\* C20: once a strategy has assigned a subscription id, no further strategy
\* or receipt log is evaluated and the id keeps its value.
C20_FirstSuccessStops ==
  [][subId # 0 => (subId' = subId /\ ran' = ran)]_vars

\* ======================================================= polling claims
\* C23: the timeout is reported at most once per watch, only at the deadline
\* and only without fulfillment; after a terminal report nothing more is
\* probed or reported.
C23_TerminalReportedOnce ==
  /\ timeoutReports <= 1
  /\ timeoutReports > 0 => (pollElapsed >= timeout /\ fulfilledReports = 0)
  /\ fulfilledReports <= 1
  /\ ppc = "done" => ~ENABLED PollTick

\* C30: "Request fulfilled!" is printed only when the consumer's s_requestId is
\* the id assigned to the request this run submitted.
C30_FulfilledOnlyForOwnRequest ==
  fulfilledReports > 0 => storedId = assignedId

\* ============================================= script and helper claims
IsZeroWord(c) == \A k \in 1..Len(c) : c[k] = 0

\* C25: the commitment check never reports a zero commitment as fulfilled: it
\* reports it as ambiguous between a request that does not exist, one already
\* fulfilled, and a wrong network or coordinator; a nonzero commitment is
\* reported as a request that exists and is not yet fulfilled.
C25_ZeroCommitmentAmbiguous ==
  (arg.fn = "checkCommitment" /\ res.done /\ "ERROR" \notin res.v)
    => IF IsZeroWord(arg.v)
       THEN /\ res.v # {"already fulfilled"}
            /\ {"does not exist", "already fulfilled"} \subseteq res.v
       ELSE res.v = {"exists", "not fulfilled yet"}

C25_Witness ==
  /\ arg.fn = "checkCommitment" /\ res.done
  /\ IsZeroWord(arg.v) /\ Cardinality(res.v) = 3

C25_WitnessNonzero ==
  /\ arg.fn = "checkCommitment" /\ res.done
  /\ arg.v[64] = 1 /\ res.v = {"exists", "not fulfilled yet"}

\* The 32-byte big-endian word of a value given by its base-256 digits.
BigEndianWord(n) == [k \in 1..32 |-> IF 33 - k <= Len(n) THEN n[33 - k] ELSE 0]

\* C27: for every subscription id of up to 256 bits the data passed to
\* transferAndCall is the 32-byte big-endian ABI word of the id; the uint256
\* encoding is used exactly when the id does not fit 64 bits, so the bytes do
\* not depend on the width chosen.
C27_AuxDataIsBigEndianWord ==
  (arg.fn = "encodeSubId" /\ res.done)
    => /\ res.v.word = BigEndianWord(arg.v)
       /\ res.v.type = (IF Len(arg.v) > 8 THEN "uint256" ELSE "uint64")

C27_Witness ==
  /\ arg.fn = "encodeSubId" /\ res.done
  /\ Len(arg.v) = 9 /\ res.v.type = "uint256" /\ res.v.word[24] = 255

C27_WitnessNarrow ==
  /\ arg.fn = "encodeSubId" /\ res.done
  /\ Len(arg.v) = 8 /\ res.v.type = "uint64" /\ res.v.word[25] = 255

\* The hex digit of weight 16^j of a request id below 16^7.
HexDigit(n, j) == IF j > 6 THEN 0 ELSE (n \div 16^j) % 16
PaddedRequestId(rid) == [k \in 1..64 |-> HexDigit(rid, 64 - k)]
CountsAsFulfillment(log, rid) ==
  Len(log.topics) > 1 /\ log.topics[2] = PaddedRequestId(rid)

\* C28: the event probe scans from max(currentBlock - 20, 0), never from a
\* negative block, and a log counts as the fulfillment only if it has more
\* than one topic and its topics[1] is the request id left-padded to 64 hex
\* digits.
C28_BoundedWindowPaddedTopic ==
  (arg.fn = "scanEvents" /\ res.done)
    => /\ res.v.fromBlock >= 0
       /\ res.v.fromBlock = (IF arg.v.n >= 20 THEN arg.v.n - 20 ELSE 0)
       /\ res.v.found # 0
            => CountsAsFulfillment(arg.v.logs[res.v.found], arg.v.requestId)
       /\ res.v.found = 0
            => \A k \in 1..Len(arg.v.logs) :
                 ~CountsAsFulfillment(arg.v.logs[k], arg.v.requestId)

C28_Witness ==
  /\ arg.fn = "scanEvents" /\ res.done
  /\ arg.v.n = 7 /\ res.v.fromBlock = 0
  /\ arg.v.requestId = 255 /\ res.v.found = 2

C28_WitnessHighTopic ==
  /\ arg.fn = "scanEvents" /\ res.done
  /\ arg.v.n = 300 /\ res.v.fromBlock = 280
  /\ arg.v.requestId = 255 /\ res.v.found = 0
  /\ arg.v.logs = <<[topics |-> <<FulfilledTopic, HighTopic(255)>>]>>

\* C29: for every 64-byte uncompressed key x||y, given with or without "0x"
\* and with or without the leading 04 byte, encodeOnChainVRFProvingKey
\* returns the coordinates [x, y] and the compressed key prefix||x, the prefix
\* 02 for an even y and 03 for an odd y.
C29_KeyCoordinatesAndCompressed ==
  (arg.fn \in {"provingKey", "provingKeyPart1"} /\ res.done)
    => /\ res.v.ok
       /\ res.v.coordinates = <<arg.v.x, arg.v.y>>
       /\ res.v.compressed
            = (IF arg.v.y[64] % 2 = 0 THEN <<0, 2>> ELSE <<0, 3>>) \o arg.v.x

\* C33: the binary search over 1..1000 terminates, for every pattern of
\* getSubscription successes and failures, after at most 10 calls, and its
\* maxExistingId is 0 or an id for which a call of the search succeeded.
C33_SearchBoundedAndSound ==
  (arg.fn = "binarySearch" /\ res.done)
    => /\ res.v.left > res.v.right
       /\ res.v.calls <= 10
       /\ res.v.maxExistingId = 0 \/ res.v.maxExistingId \in res.v.succeeded

C33_Witness ==
  /\ arg.fn = "binarySearch" /\ res.done
  /\ res.v.calls = 10 /\ res.v.maxExistingId = 1000

C33_WitnessMixed ==
  /\ arg.fn = "binarySearch" /\ res.done
  /\ res.v.calls = 9 /\ res.v.maxExistingId = 250 /\ res.v.succeeded = {250}

C33_WitnessNone ==
  /\ arg.fn = "binarySearch" /\ res.done
  /\ res.v.calls = 9 /\ res.v.maxExistingId = 0 /\ res.v.succeeded = {}

\* ==================================================== deployment claims
CoordinatorsDeployed == {k \in 1..Len(deployed) : deployed[k] \in CoordinatorVariants}

\* C19: with USE_TEST_COORDINATOR set, the coordinator deployed is
\* VRFCoordinatorTestV2_5 whatever NETWORK_TYPE is, and a completed run has
\* deployed exactly one coordinator variant.
C19_TestCoordinatorWhenAsked ==
  /\ config.USE_TEST_COORDINATOR
       => \A k \in CoordinatorsDeployed : deployed[k] = "VRFCoordinatorTestV2_5"
  /\ Cardinality(CoordinatorsDeployed) <= 1
  /\ dpc = "done" => Cardinality(CoordinatorsDeployed) = 1

====
